---- MODULE Spec2Model ----
(***************************************************************************)
(* A model of the stock calculator (src/stock_calculator.py) and of the    *)
(* advisory engine built on it (src/advanced_stock_analyzer.py).           *)
(*                                                                         *)
(* Python floats are modelled as exact rationals <<n, d>> in lowest terms  *)
(* with d > 0; money is in yuan (20.14 is <<1007, 50>>).  Dates are day    *)
(* numbers.  The free-text description of a trade is left out: no          *)
(* computation reads it.                                                   *)
(***************************************************************************)
EXTENDS Integers, Sequences, FiniteSets, TLC

VARIABLES
    calc,           \* a StockCalculator: trades and the derived position
    result,         \* what the last call returned
    file,           \* the file save_to_file writes and load_from_file reads
    stocks,         \* StockPortfolio.stocks: code -> StockCalculator
    pfile,          \* the file save_portfolio / load_portfolio use
    price_history   \* StockAnalyzer.price_history

vars == <<calc, result, file, stocks, pfile, price_history>>

(***************************************************************************)
(* Bounds of the model.                                                    *)
(***************************************************************************)
MaxDate == 3
MaxTrades == 3
MaxQueryTrades == 3
MaxFileTrades == 2
MaxPortfolioTrades == 2
MaxHistory == 3

(***************************************************************************)
(* Constants of the program.                                               *)
(***************************************************************************)
TradingDays == 252
DefaultShortPeriod == 5
DefaultLongPeriod == 20
DefaultRsiPeriod == 14

(***************************************************************************)
(* Float arithmetic, as exact rationals.                                   *)
(***************************************************************************)
Abs(x) == IF x < 0 THEN -x ELSE x

RECURSIVE GCD(_, _)
GCD(a, b) == IF b = 0 THEN a ELSE GCD(b, a % b)

Rat(n, d) ==
    LET s == IF d < 0 THEN -1 ELSE 1
        g == GCD(Abs(n), Abs(d))
    IN  <<(s * n) \div g, (s * d) \div g>>

FInt(n) == <<n, 1>>

Zero == FInt(0)

FAdd(a, b) ==
    LET g == GCD(a[2], b[2])
    IN  Rat(a[1] * (b[2] \div g) + b[1] * (a[2] \div g), (a[2] \div g) * b[2])

FNeg(a) == <<-a[1], a[2]>>

FSub(a, b) == FAdd(a, FNeg(b))

FMul(a, b) ==
    LET g1 == GCD(Abs(a[1]), b[2])
        g2 == GCD(Abs(b[1]), a[2])
    IN  Rat((a[1] \div g1) * (b[1] \div g2), (a[2] \div g2) * (b[2] \div g1))

\* a / b, for b # 0 (the callers guard it as the code does)
FDiv(a, b) == FMul(a, Rat(b[2], b[1]))

FLt(a, b) == a[1] * b[2] < b[1] * a[2]

FLe(a, b) == a[1] * b[2] <= b[1] * a[2]

FGt(a, b) == FLt(b, a)

(***************************************************************************)
(* Trade, and the values the model draws trades from.                      *)
(***************************************************************************)
Dates == 1..MaxDate

Actions == {"buy", "sell"}

\* (price, shares, commission) of the trades the model enters: the three
\* trades of main(), a smaller commission-free lot, and a cheap
\* commission-free lot (a buy far below the earlier cost).
Lots ==
    { [price |-> Rat(2000, 100), shares |-> 500, commission |-> FInt(5)],
      [price |-> Rat(1988, 100), shares |-> 500, commission |-> FInt(5)],
      [price |-> Rat(2014, 100), shares |-> 500, commission |-> FInt(5)],
      [price |-> Rat(2014, 100), shares |-> 300, commission |-> Zero],
      [price |-> FInt(1), shares |-> 500, commission |-> Zero] }

\* current prices the queries are made at: main()'s test_prices
QueryPrices ==
    { Rat(1950, 100), Rat(2000, 100), Rat(2014, 100), Rat(2050, 100),
      Rat(2100, 100) }

Trade(date, action, price, shares, commission) ==
    [date |-> date, action |-> action, price |-> price, shares |-> shares,
     commission |-> commission]

TradeInputs ==
    { Trade(d, a, l.price, l.shares, l.commission) :
        d \in Dates, a \in Actions, l \in Lots }

(***************************************************************************)
(* StockCalculator.                                                        *)
(***************************************************************************)
\* os.path.exists(filename) is false
Absent == [exists |-> FALSE]

\* StockPortfolio.__init__
NewPortfolio == << >>

ZeroPosition ==
    [current_shares |-> 0, total_cost |-> Zero, total_commission |-> Zero]

\* StockCalculator.__init__
NewCalculator ==
    [trades |-> <<>>, current_shares |-> 0, total_cost |-> Zero,
     total_commission |-> Zero]

\* apply_trade with a sell that takes the sale proceeds off the cost
\* instead of scaling it
apply_trade_proceeds(pos, trade) ==
    IF trade.action = "buy"
    THEN [current_shares |-> pos.current_shares + trade.shares,
          total_cost |-> FAdd(pos.total_cost,
                              FMul(trade.price, FInt(trade.shares))),
          total_commission |-> FAdd(pos.total_commission, trade.commission)]
    ELSE IF trade.action = "sell" /\ pos.current_shares > 0
    THEN [current_shares |-> pos.current_shares - trade.shares,
          total_cost |-> FSub(pos.total_cost,
                              FMul(trade.price, FInt(trade.shares))),
          total_commission |-> FAdd(pos.total_commission, trade.commission)]
    ELSE pos

\* apply_trade with a buy that adds the price, not price * shares
apply_trade_unit_price(pos, trade) ==
    IF trade.action = "buy"
    THEN [current_shares |-> pos.current_shares + trade.shares,
          total_cost |-> FAdd(pos.total_cost, trade.price),
          total_commission |-> FAdd(pos.total_commission, trade.commission)]
    ELSE IF trade.action = "sell" /\ pos.current_shares > 0
    THEN LET sell_ratio == Rat(trade.shares, pos.current_shares)
         IN  [current_shares |-> pos.current_shares - trade.shares,
              total_cost |-> FMul(pos.total_cost, FSub(FInt(1), sell_ratio)),
              total_commission |->
                  FAdd(pos.total_commission, trade.commission)]
    ELSE pos

\* apply_trade with a sell that takes its commission off the total
apply_trade_refund(pos, trade) ==
    IF trade.action = "buy"
    THEN [current_shares |-> pos.current_shares + trade.shares,
          total_cost |-> FAdd(pos.total_cost,
                              FMul(trade.price, FInt(trade.shares))),
          total_commission |-> FAdd(pos.total_commission, trade.commission)]
    ELSE IF trade.action = "sell" /\ pos.current_shares > 0
    THEN LET sell_ratio == Rat(trade.shares, pos.current_shares)
         IN  [current_shares |-> pos.current_shares - trade.shares,
              total_cost |-> FMul(pos.total_cost, FSub(FInt(1), sell_ratio)),
              total_commission |->
                  FSub(pos.total_commission, trade.commission)]
    ELSE pos

\* apply_trade with a sell that is ignored when it exceeds the holding
apply_trade_within_holding(pos, trade) ==
    IF trade.action = "buy"
    THEN [current_shares |-> pos.current_shares + trade.shares,
          total_cost |-> FAdd(pos.total_cost,
                              FMul(trade.price, FInt(trade.shares))),
          total_commission |-> FAdd(pos.total_commission, trade.commission)]
    ELSE IF trade.action = "sell" /\ pos.current_shares > 0
            /\ trade.shares <= pos.current_shares
    THEN LET sell_ratio == Rat(trade.shares, pos.current_shares)
         IN  [current_shares |-> pos.current_shares - trade.shares,
              total_cost |-> FMul(pos.total_cost, FSub(FInt(1), sell_ratio)),
              total_commission |->
                  FAdd(pos.total_commission, trade.commission)]
    ELSE pos

\* apply_trade with a sell ratio taken by integer division
apply_trade_integer_ratio(pos, trade) ==
    IF trade.action = "buy"
    THEN [current_shares |-> pos.current_shares + trade.shares,
          total_cost |-> FAdd(pos.total_cost,
                              FMul(trade.price, FInt(trade.shares))),
          total_commission |-> FAdd(pos.total_commission, trade.commission)]
    ELSE IF trade.action = "sell" /\ pos.current_shares > 0
    THEN LET sell_ratio == FInt(trade.shares \div pos.current_shares)
         IN  [current_shares |-> pos.current_shares - trade.shares,
              total_cost |-> FMul(pos.total_cost, FSub(FInt(1), sell_ratio)),
              total_commission |->
                  FAdd(pos.total_commission, trade.commission)]
    ELSE pos

\* one iteration of the loop of _recalculate_position
apply_trade(pos, trade) ==
    IF trade.action = "buy"
    THEN [current_shares |-> pos.current_shares + trade.shares,
          total_cost |-> FAdd(pos.total_cost,
                              FMul(trade.price, FInt(trade.shares))),
          total_commission |-> FAdd(pos.total_commission, trade.commission)]
    ELSE IF trade.action = "sell" /\ pos.current_shares > 0
    THEN LET sell_ratio == Rat(trade.shares, pos.current_shares)
         IN  [current_shares |-> pos.current_shares - trade.shares,
              total_cost |-> FMul(pos.total_cost, FSub(FInt(1), sell_ratio)),
              total_commission |->
                  FAdd(pos.total_commission, trade.commission)]
    ELSE pos

RECURSIVE replay(_, _, _)
replay(trades, i, pos) ==
    IF i > Len(trades) THEN pos
    ELSE replay(trades, i + 1, apply_trade(pos, trades[i]))

\* StockCalculator._recalculate_position: the position is reset and every
\* stored trade is replayed in stored order
recalculate_position(c) ==
    LET pos == replay(c.trades, 1, ZeroPosition)
    IN  [trades |-> c.trades, current_shares |-> pos.current_shares,
         total_cost |-> pos.total_cost,
         total_commission |-> pos.total_commission]

\* list.sort(key=lambda x: x.date): a stable sort by date
InsertByDate(sorted, t) ==
    LET k == Cardinality({i \in 1..Len(sorted) : sorted[i].date <= t.date})
    IN  SubSeq(sorted, 1, k) \o <<t>> \o SubSeq(sorted, k + 1, Len(sorted))

RECURSIVE sort_by_date(_)
sort_by_date(s) ==
    IF s = <<>> THEN <<>>
    ELSE InsertByDate(sort_by_date(SubSeq(s, 1, Len(s) - 1)), s[Len(s)])

\* add_trade without the sort
add_trade_unsorted(c, trade) ==
    recalculate_position([c EXCEPT !.trades = Append(c.trades, trade)])

\* StockCalculator.add_trade
add_trade(c, trade) ==
    recalculate_position(
        [c EXCEPT !.trades = sort_by_date(Append(c.trades, trade))])

\* StockCalculator.buy
buy(c, date, price, shares, commission) ==
    add_trade(c, Trade(date, "buy", price, shares, commission))

\* StockCalculator.sell
sell(c, date, price, shares, commission) ==
    add_trade(c, Trade(date, "sell", price, shares, commission))

\* StockCalculator.get_average_cost
get_average_cost(c) ==
    IF c.current_shares <= 0 THEN Zero
    ELSE FDiv(c.total_cost, FInt(c.current_shares))

\* StockCalculator.get_total_investment
get_total_investment(c) == FAdd(c.total_cost, c.total_commission)

\* calculate_profit_loss that leaves the commission out of the investment
calculate_profit_loss_cost_only(c, current_price) ==
    IF c.current_shares <= 0
    THEN [profit_loss |-> Zero, profit_loss_rate |-> Zero,
          market_value |-> Zero, total_investment |-> Zero]
    ELSE LET market_value == FMul(current_price, FInt(c.current_shares))
             total_investment == c.total_cost
             profit_loss == FSub(market_value, total_investment)
             profit_loss_rate ==
                 IF FGt(total_investment, Zero)
                 THEN FMul(FDiv(profit_loss, total_investment), FInt(100))
                 ELSE Zero
         IN  [profit_loss |-> profit_loss,
              profit_loss_rate |-> profit_loss_rate,
              market_value |-> market_value,
              total_investment |-> total_investment]

\* StockCalculator.calculate_profit_loss
calculate_profit_loss(c, current_price) ==
    IF c.current_shares <= 0
    THEN [profit_loss |-> Zero, profit_loss_rate |-> Zero,
          market_value |-> Zero, total_investment |-> Zero]
    ELSE LET market_value == FMul(current_price, FInt(c.current_shares))
             total_investment == get_total_investment(c)
             profit_loss == FSub(market_value, total_investment)
             profit_loss_rate ==
                 IF FGt(total_investment, Zero)
                 THEN FMul(FDiv(profit_loss, total_investment), FInt(100))
                 ELSE Zero
         IN  [profit_loss |-> profit_loss,
              profit_loss_rate |-> profit_loss_rate,
              market_value |-> market_value,
              total_investment |-> total_investment]

\* trade.date.strftime('%Y-%m-%d %H:%M:%S'): the text of a date
strftime(date) == <<"%Y-%m-%d %H:%M:%S", date>>

\* StockCalculator.get_trade_history
get_trade_history(c) ==
    [i \in 1..Len(c.trades) |->
        [date |-> strftime(c.trades[i].date),
         action |-> c.trades[i].action,
         price |-> c.trades[i].price,
         shares |-> c.trades[i].shares,
         amount |-> FMul(c.trades[i].price, FInt(c.trades[i].shares)),
         commission |-> c.trades[i].commission]]

\* StockCalculator.get_position_summary
get_position_summary(c) ==
    [current_shares |-> c.current_shares,
     average_cost |-> get_average_cost(c),
     total_cost |-> c.total_cost,
     total_commission |-> c.total_commission,
     total_investment |-> get_total_investment(c)]

\* datetime.isoformat: the text a date is stored as
isoformat(date) == <<"iso", date>>

\* datetime.fromisoformat
fromisoformat(text) == text[2]

\* the 'trades' list save_to_file and save_portfolio write
stored_trades(trades) ==
    [i \in 1..Len(trades) |->
        [date |-> isoformat(trades[i].date),
         action |-> trades[i].action,
         price |-> trades[i].price,
         shares |-> trades[i].shares,
         commission |-> trades[i].commission]]

\* the loop of load_from_file and load_portfolio: one Trade per stored
\* record, appended in the order of the file
loaded_trades(records) ==
    [i \in 1..Len(records) |->
        Trade(fromisoformat(records[i].date), records[i].action,
              records[i].price, records[i].shares, records[i].commission)]

\* StockCalculator.save_to_file: the file written
save_to_file(c) == [exists |-> TRUE, trades |-> stored_trades(c.trades)]

\* StockCalculator.load_from_file
load_from_file(c, f) ==
    IF ~f.exists THEN c
    ELSE recalculate_position([c EXCEPT !.trades = loaded_trades(f.trades)])

(***************************************************************************)
(* StockPortfolio.                                                         *)
(***************************************************************************)
Codes == {"000001", "600000"}

\* StockPortfolio.add_stock: the portfolio after the call
add_stock(st, stock_code) ==
    IF stock_code \in DOMAIN st THEN st
    ELSE st @@ (stock_code :> NewCalculator)

\* current_prices.get(stock_code, 0.0)
price_or_zero(current_prices, stock_code) ==
    IF stock_code \in DOMAIN current_prices THEN current_prices[stock_code]
    ELSE Zero

\* the accumulation total += info[field] over the instruments
RECURSIVE sum_field(_, _, _)
sum_field(infos, codes, field) ==
    IF codes = {} THEN Zero
    ELSE LET c == CHOOSE x \in codes : TRUE
         IN  FAdd(sum_field(infos, codes \ {c}, field), infos[c][field])

\* the summary over the instruments in `codes`
portfolio_summary_over(st, current_prices, codes) ==
    LET infos == [c \in codes |->
                    calculate_profit_loss(st[c],
                                          price_or_zero(current_prices, c))]
        total_investment == sum_field(infos, codes, "total_investment")
        total_market_value == sum_field(infos, codes, "market_value")
        total_profit_loss == sum_field(infos, codes, "profit_loss")
    IN  [total_investment |-> total_investment,
         total_market_value |-> total_market_value,
         total_profit_loss |-> total_profit_loss,
         total_profit_loss_rate |->
             IF FGt(total_investment, Zero)
             THEN FMul(FDiv(total_profit_loss, total_investment), FInt(100))
             ELSE Zero,
         stocks |-> [c \in codes |->
                       [position |-> get_position_summary(st[c]),
                        profit_loss |-> infos[c]]]]

\* get_portfolio_summary that skips the instruments without a supplied price
get_portfolio_summary_priced_only(st, current_prices) ==
    portfolio_summary_over(st, current_prices,
                           DOMAIN st \cap DOMAIN current_prices)

\* StockPortfolio.get_portfolio_summary
get_portfolio_summary(st, current_prices) ==
    portfolio_summary_over(st, current_prices, DOMAIN st)

\* StockPortfolio.save_portfolio: the file written
save_portfolio(st) ==
    [exists |-> TRUE,
     data |-> [c \in DOMAIN st |-> [trades |-> stored_trades(st[c].trades)]]]

\* StockPortfolio.load_portfolio: the portfolio after the call
load_portfolio(st, f) ==
    IF ~f.exists THEN st
    ELSE [c \in DOMAIN f.data |->
            recalculate_position(
                [NewCalculator EXCEPT
                    !.trades = loaded_trades(f.data[c].trades)])]

(***************************************************************************)
(* TechnicalIndicators, RiskAnalyzer, InvestmentAdvisor, StockAnalyzer.    *)
(* The texts the advisor returns are given in English: "insufficient       *)
(* data", "strong buy signal (golden cross)", "strong sell signal (death   *)
(* cross)", "bullish trend", "bearish trend"; the risk levels are "low",   *)
(* "medium", "high".  The volatility stdev(returns) * sqrt(252) is kept    *)
(* as its square, 252 * variance(returns), which is rational.              *)
(***************************************************************************)
\* sum(s[lo..hi]), by halves: a sum of exact values does not depend on
\* the order of the additions
RECURSIVE SumRange(_, _, _)
SumRange(s, lo, hi) ==
    IF lo > hi THEN Zero
    ELSE IF lo = hi THEN s[lo]
    ELSE LET mid == (lo + hi) \div 2
             left == SumRange(s, lo, mid)
             right == SumRange(s, mid + 1, hi)
         IN  FAdd(left, right)

\* sum(s)
SumSeq(s) == SumRange(s, 1, Len(s))

\* TechnicalIndicators.calculate_sma
calculate_sma(prices, period) ==
    IF Len(prices) < period THEN <<>>
    ELSE [k \in 1..(Len(prices) - period + 1) |->
            FDiv(SumSeq(SubSeq(prices, k, k + period - 1)), FInt(period))]

FMax(a, b) == IF FLt(a, b) THEN b ELSE a

\* TechnicalIndicators.calculate_rsi
calculate_rsi(prices, period) ==
    IF Len(prices) < period + 1 THEN <<>>
    ELSE LET change(i) == FSub(prices[i + 1], prices[i])
             gains == [i \in 1..(Len(prices) - 1) |-> FMax(change(i), Zero)]
             losses ==
                 [i \in 1..(Len(prices) - 1) |-> FMax(FNeg(change(i)), Zero)]
         IN  [j \in 1..(Len(prices) - period) |->
                LET avg_gain == FDiv(SumSeq(SubSeq(gains, j, j + period - 1)),
                                     FInt(period))
                    avg_loss == FDiv(SumSeq(SubSeq(losses, j, j + period - 1)),
                                     FInt(period))
                IN  IF avg_loss = Zero THEN FInt(100)
                    ELSE FSub(FInt(100),
                              FDiv(FInt(100),
                                   FAdd(FInt(1), FDiv(avg_gain, avg_loss))))]

\* the returns (prices[i] - prices[i-1]) / prices[i-1]
returns_of(prices) ==
    [i \in 1..(Len(prices) - 1) |->
        FDiv(FSub(prices[i + 1], prices[i]), prices[i])]

\* the sum of (x - mean)^2 over the data
sum_squares(data, mean) ==
    SumSeq([i \in 1..Len(data) |->
               LET dev == FSub(data[i], mean) IN FMul(dev, dev)])

\* the square of statistics.stdev(data): the sample variance
variance(data) ==
    FDiv(sum_squares(data, FDiv(SumSeq(data), FInt(Len(data)))),
         FInt(Len(data) - 1))

\* the square of stdev(returns) * sqrt(252)
annualized(returns) == FMul(variance(returns), FInt(TradingDays))

\* RiskAnalyzer.calculate_volatility; statistics.stdev raises
\* StatisticsError when given fewer than two data points
calculate_volatility(prices) ==
    IF Len(prices) < 2 THEN [kind |-> "value", squared |-> Zero]
    ELSE IF Len(returns_of(prices)) < 2
    THEN [kind |-> "raised", error |-> "StatisticsError"]
    ELSE [kind |-> "value", squared |-> annualized(returns_of(prices))]

\* the loop of calculate_max_drawdown from price i on
RECURSIVE drawdown_from(_, _, _, _)
drawdown_from(prices, i, peak, max_dd) ==
    IF i > Len(prices) THEN max_dd
    ELSE IF FGt(prices[i], peak)
    THEN drawdown_from(prices, i + 1, prices[i], max_dd)
    ELSE LET dd == FDiv(FSub(peak, prices[i]), peak)
         IN  drawdown_from(prices, i + 1, peak,
                           IF FGt(dd, max_dd) THEN dd ELSE max_dd)

\* RiskAnalyzer.calculate_max_drawdown
calculate_max_drawdown(prices) ==
    IF Len(prices) < 2 THEN Zero
    ELSE drawdown_from(prices, 1, prices[1], Zero)

\* InvestmentAdvisor.analyze_trend
analyze_trend(prices, short_period, long_period) ==
    IF Len(prices) < long_period THEN "insufficient data"
    ELSE LET short_sma == calculate_sma(prices, short_period)
             long_sma == calculate_sma(prices, long_period)
         IN  IF short_sma = <<>> \/ long_sma = <<>> THEN "insufficient data"
             ELSE LET current_short == short_sma[Len(short_sma)]
                      current_long == long_sma[Len(long_sma)]
                      prev_short ==
                          IF Len(short_sma) > 1
                          THEN short_sma[Len(short_sma) - 1]
                          ELSE current_short
                      prev_long ==
                          IF Len(long_sma) > 1
                          THEN long_sma[Len(long_sma) - 1]
                          ELSE current_long
                  IN  IF FGt(current_short, current_long)
                           /\ FLe(prev_short, prev_long)
                      THEN "strong buy signal (golden cross)"
                      ELSE IF FLt(current_short, current_long)
                                /\ FLe(prev_long, prev_short)
                      THEN "strong sell signal (death cross)"
                      ELSE IF FGt(current_short, current_long)
                      THEN "bullish trend"
                      ELSE "bearish trend"

\* InvestmentAdvisor.analyze_rsi_signal
analyze_rsi_signal(prices) ==
    LET rsi == calculate_rsi(prices, DefaultRsiPeriod)
    IN  IF rsi = <<>> THEN "insufficient data"
        ELSE LET current_rsi == rsi[Len(rsi)]
             IN  IF FGt(current_rsi, FInt(70))
                 THEN "overbought, consider selling"
                 ELSE IF FLt(current_rsi, FInt(30))
                 THEN "oversold, consider buying"
                 ELSE IF FGt(current_rsi, FInt(50)) THEN "strong zone"
                 ELSE "weak zone"

\* "买入" in trend
has_buy(trend) == trend = "strong buy signal (golden cross)"

\* "卖出" in trend
has_sell(trend) == trend = "strong sell signal (death cross)"

\* volatility > 0.5, on the square of a volatility (which is >= 0)
volatility_above_half(squared) == FGt(squared, Rat(1, 4))

\* advice_from with a volatility that raises the risk level from "low" only
advice_from_keeps_medium(position, profit_loss, trend, rsi_signal, volatility, max_dd) ==
    LET advice1 ==
            IF FGt(profit_loss.profit_loss, Zero)
            THEN IF FGt(profit_loss.profit_loss_rate, FInt(20))
                 THEN <<"take partial profit">>
                 ELSE <<"in profit, hold">>
            ELSE IF FLt(profit_loss.profit_loss_rate, FInt(-20))
                 THEN <<"large loss, control risk">>
                 ELSE <<"loss, consider averaging down or stop-loss">>
        risk1 ==
            IF FGt(profit_loss.profit_loss, Zero) THEN "low"
            ELSE IF FLt(profit_loss.profit_loss_rate, FInt(-20))
                 THEN "high"
                 ELSE "medium"
        advice2 ==
            IF has_buy(trend) THEN Append(advice1, "technical buy signal")
            ELSE IF has_sell(trend)
            THEN Append(advice1, "technical sell signal")
            ELSE advice1
    IN  IF volatility.kind = "raised" THEN volatility
        ELSE [kind |-> "advice",
              position_summary |-> position,
              profit_loss |-> profit_loss,
              trend |-> trend,
              rsi_signal |-> rsi_signal,
              volatility_squared |-> volatility.squared,
              max_drawdown |-> max_dd,
              risk_level |->
                  IF volatility_above_half(volatility.squared)
                     /\ risk1 = "low"
                  THEN "high"
                  ELSE risk1,
              advice |->
                  IF volatility_above_half(volatility.squared)
                  THEN Append(advice2, "high volatility, mind the risk")
                  ELSE advice2]

\* get_comprehensive_advice once its six computations are made; an
\* exception raised by calculate_volatility leaves the function
advice_from(position, profit_loss, trend, rsi_signal, volatility, max_dd) ==
    LET advice1 ==
            IF FGt(profit_loss.profit_loss, Zero)
            THEN IF FGt(profit_loss.profit_loss_rate, FInt(20))
                 THEN <<"take partial profit">>
                 ELSE <<"in profit, hold">>
            ELSE IF FLt(profit_loss.profit_loss_rate, FInt(-20))
                 THEN <<"large loss, control risk">>
                 ELSE <<"loss, consider averaging down or stop-loss">>
        risk1 ==
            IF FGt(profit_loss.profit_loss, Zero) THEN "low"
            ELSE IF FLt(profit_loss.profit_loss_rate, FInt(-20))
                 THEN "high"
                 ELSE "medium"
        advice2 ==
            IF has_buy(trend) THEN Append(advice1, "technical buy signal")
            ELSE IF has_sell(trend)
            THEN Append(advice1, "technical sell signal")
            ELSE advice1
    IN  IF volatility.kind = "raised" THEN volatility
        ELSE [kind |-> "advice",
              position_summary |-> position,
              profit_loss |-> profit_loss,
              trend |-> trend,
              rsi_signal |-> rsi_signal,
              volatility_squared |-> volatility.squared,
              max_drawdown |-> max_dd,
              risk_level |->
                  IF volatility_above_half(volatility.squared) THEN "high"
                  ELSE risk1,
              advice |->
                  IF volatility_above_half(volatility.squared)
                  THEN Append(advice2, "high volatility, mind the risk")
                  ELSE advice2]

\* InvestmentAdvisor.get_comprehensive_advice
get_comprehensive_advice(c, current_price, historical_prices) ==
    IF historical_prices = <<>> THEN [kind |-> "error"]
    ELSE advice_from(get_position_summary(c),
                     calculate_profit_loss(c, current_price),
                     analyze_trend(historical_prices, DefaultShortPeriod,
                                   DefaultLongPeriod),
                     analyze_rsi_signal(historical_prices),
                     calculate_volatility(historical_prices),
                     calculate_max_drawdown(historical_prices))

\* StockAnalyzer.add_price_history: the history after the call
add_price_history(history, date, price) ==
    sort_by_date(Append(history, [date |-> date, price |-> price]))

\* StockAnalyzer.get_price_list
get_price_list(history) == [i \in 1..Len(history) |-> history[i].price]

\* StockAnalyzer.analyze_stock
analyze_stock(c, history, current_price) ==
    LET prices == get_price_list(history)
    IN  get_comprehensive_advice(c, current_price,
            IF prices = <<>> THEN <<current_price>> ELSE prices)

(***************************************************************************)
(* The ledger specification: one StockCalculator, trades entered by buy    *)
(* and sell with any date, in any order.                                   *)
(***************************************************************************)
NoResult == [op |-> "none"]

Init ==
    /\ calc = NewCalculator
    /\ result = NoResult
    /\ file = Absent
    /\ stocks = NewPortfolio
    /\ pfile = Absent
    /\ price_history = << >>

Buy(d, l) ==
    /\ Len(calc.trades) < MaxTrades
    /\ calc' = buy(calc, d, l.price, l.shares, l.commission)
    /\ result' = NoResult
    /\ UNCHANGED <<file, stocks, pfile, price_history>>

Sell(d, l) ==
    /\ Len(calc.trades) < MaxTrades
    /\ calc' = sell(calc, d, l.price, l.shares, l.commission)
    /\ result' = NoResult
    /\ UNCHANGED <<file, stocks, pfile, price_history>>

Next ==
    \/ \E d \in Dates, l \in Lots : Buy(d, l)
    \/ \E d \in Dates, l \in Lots : Sell(d, l)

Spec == Init /\ [][Next]_vars

(***************************************************************************)
(* Vocabulary of the properties.                                           *)
(***************************************************************************)
Position(c) ==
    [current_shares |-> c.current_shares, total_cost |-> c.total_cost,
     total_commission |-> c.total_commission]

ReplayFromZero(trades) == replay(trades, 1, ZeroPosition)

IsSortedByDate(s) == \A i \in 1..(Len(s) - 1) : s[i].date <= s[i + 1].date

DistinctDates(s) ==
    \A i, j \in 1..Len(s) : i # j => s[i].date # s[j].date

Orders(n) == { f \in [1..n -> 1..n] : \A i, j \in 1..n : i # j => f[i] # f[j] }

\* the calculator after add_trade of s[1], s[2], ... on a new calculator
RECURSIVE EnterAll(_)
EnterAll(s) ==
    IF s = <<>> THEN NewCalculator
    ELSE add_trade(EnterAll(SubSeq(s, 1, Len(s) - 1)), s[Len(s)])

RECURSIVE SumAmount(_)
SumAmount(s) ==
    IF s = <<>> THEN Zero
    ELSE FAdd(SumAmount(Tail(s)), FMul(Head(s).price, FInt(Head(s).shares)))

RECURSIVE SumShares(_)
SumShares(s) == IF s = <<>> THEN 0 ELSE Head(s).shares + SumShares(Tail(s))

AllBuys(s) == \A i \in 1..Len(s) : s[i].action = "buy"

\* the ledger main() enters: buy 500 @ 20.00, sell 500 @ 19.88,
\* buy 500 @ 20.14, commission 5 each, on ascending dates
IsMainLedger(s) ==
    /\ Len(s) = 3
    /\ s[1].date < s[2].date /\ s[2].date < s[3].date
    /\ s[1].action = "buy" /\ s[1].price = Rat(2000, 100)
    /\ s[2].action = "sell" /\ s[2].price = Rat(1988, 100)
    /\ s[3].action = "buy" /\ s[3].price = Rat(2014, 100)
    /\ \A i \in 1..3 : s[i].shares = 500 /\ s[i].commission = FInt(5)

(***************************************************************************)
(* C1.  After any sequence of add_trade/buy/sell calls the stored trades   *)
(* are in ascending date order and the position is the replay of the       *)
(* stored trades from the zero position; when the dates are pairwise       *)
(* distinct, entering the same trades in every other order gives the same  *)
(* calculator.                                                             *)
(***************************************************************************)
C1_DateOrderedReplay ==
    /\ IsSortedByDate(calc.trades)
    /\ Position(calc) = ReplayFromZero(calc.trades)
    /\ DistinctDates(calc.trades) =>
         \A f \in Orders(Len(calc.trades)) :
            EnterAll([i \in 1..Len(calc.trades) |-> calc.trades[f[i]]]) = calc

C1_Witness ==
    /\ Len(calc.trades) = 3
    /\ DistinctDates(calc.trades)
    /\ calc.trades[1].action = "buy"
    /\ calc.trades[2].action = "sell"
    /\ calc.trades[2].shares < calc.trades[1].shares
    /\ calc.current_shares > 0

(***************************************************************************)
(* C2.  A sell of exactly all shares held (held > 0) leaves 0 shares and   *)
(* 0 cost; a buy of n @ p that follows it as the last trade gives          *)
(* total_cost = p*n and average_cost = p, and total_commission still       *)
(* holds the commissions of the trades before.  The ledger of main() ends  *)
(* with 500 shares, total_cost 10070, total_commission 15, average 20.14.  *)
(***************************************************************************)
C2_SellAllThenBuy ==
    /\ \A i \in 1..Len(calc.trades) :
         LET t == calc.trades[i]
             before == ReplayFromZero(SubSeq(calc.trades, 1, i - 1))
             after == ReplayFromZero(SubSeq(calc.trades, 1, i))
         IN  (t.action = "sell" /\ before.current_shares > 0
                /\ t.shares = before.current_shares) =>
               /\ after.current_shares = 0
               /\ after.total_cost = Zero
               /\ after.total_commission =
                    FAdd(before.total_commission, t.commission)
               /\ (i + 1 = Len(calc.trades)
                     /\ calc.trades[i + 1].action = "buy") =>
                    LET b == calc.trades[i + 1]
                    IN  /\ calc.current_shares = b.shares
                        /\ calc.total_cost = FMul(b.price, FInt(b.shares))
                        /\ get_average_cost(calc) = b.price
                        /\ calc.total_commission =
                             FAdd(after.total_commission, b.commission)
    /\ IsMainLedger(calc.trades) =>
         /\ calc.current_shares = 500
         /\ calc.total_cost = FInt(10070)
         /\ calc.total_commission = FInt(15)
         /\ get_average_cost(calc) = Rat(2014, 100)

C2_Witness == IsMainLedger(calc.trades)

(***************************************************************************)
(* C3.  For a ledger of buys only, total_cost is the sum of price*shares   *)
(* and current_shares the sum of shares, whatever the order of entry and   *)
(* also when trades share a date.                                          *)
(***************************************************************************)
C3_BuysOnlySums ==
    AllBuys(calc.trades) =>
        /\ calc.total_cost = SumAmount(calc.trades)
        /\ calc.current_shares = SumShares(calc.trades)

C3_Witness ==
    /\ Len(calc.trades) = 3
    /\ AllBuys(calc.trades)
    /\ calc.trades[1].date = calc.trades[2].date
    /\ calc.trades[1].price # calc.trades[2].price
    /\ calc.trades[2].shares # calc.trades[3].shares

(***************************************************************************)
(* C5.  As claimed: no append of a trade, whatever its date, lowers        *)
(* total_commission.                                                       *)
(***************************************************************************)
C5_NeverReducedByAnyAppend ==
    [][Len(calc'.trades) = Len(calc.trades) + 1 =>
           FLe(calc.total_commission, calc'.total_commission)]_vars

(***************************************************************************)
(* C5, amended.  An append of a trade to a date-ordered ledger that lands  *)
(* after every stored trade (its date is not earlier than any stored       *)
(* date) does not lower total_commission.                                  *)
(***************************************************************************)
C5_NeverReducedByLatestAppend ==
    [][(/\ Len(calc'.trades) = Len(calc.trades) + 1
        /\ IsSortedByDate(calc.trades)
        /\ SubSeq(calc'.trades, 1, Len(calc.trades)) = calc.trades) =>
           FLe(calc.total_commission, calc'.total_commission)]_vars

\* a sell with a commission, entered last at a holding of 0: it is ignored
C5_Witness ==
    /\ Len(calc.trades) = 3
    /\ calc.trades[2].date < calc.trades[3].date
    /\ calc.trades[3].action = "sell"
    /\ calc.trades[3].commission = FInt(5)
    /\ ReplayFromZero(SubSeq(calc.trades, 1, 2)).current_shares = 0
    /\ calc.total_commission = FInt(10)

(***************************************************************************)
(* The query specification: trades are entered as they happen (the n-th    *)
(* trade on day n) and the position is queried between the entries.        *)
(***************************************************************************)
BuyToday(l) ==
    /\ Len(calc.trades) < MaxQueryTrades
    /\ calc' = buy(calc, Len(calc.trades) + 1, l.price, l.shares,
                   l.commission)
    /\ result' = NoResult
    /\ UNCHANGED <<file, stocks, pfile, price_history>>

SellToday(l) ==
    /\ Len(calc.trades) < MaxQueryTrades
    /\ calc' = sell(calc, Len(calc.trades) + 1, l.price, l.shares,
                    l.commission)
    /\ result' = NoResult
    /\ UNCHANGED <<file, stocks, pfile, price_history>>

\* a call of get_position_summary: it assigns nothing
GetPositionSummary ==
    /\ result' = [op |-> "get_position_summary",
                  value |-> get_position_summary(calc)]
    /\ calc' = calc
    /\ UNCHANGED <<file, stocks, pfile, price_history>>

\* calculate_profit_loss that also writes the investment back as the cost
CalculateProfitLoss_writing(p) ==
    /\ result' = [op |-> "calculate_profit_loss", price |-> p,
                  value |-> calculate_profit_loss(calc, p)]
    /\ calc' = [calc EXCEPT !.total_cost = get_total_investment(calc)]
    /\ UNCHANGED <<file, stocks, pfile, price_history>>

\* a call of calculate_profit_loss(p): it assigns nothing
CalculateProfitLoss(p) ==
    /\ result' = [op |-> "calculate_profit_loss", price |-> p,
                  value |-> calculate_profit_loss(calc, p)]
    /\ calc' = calc
    /\ UNCHANGED <<file, stocks, pfile, price_history>>

\* a call of get_trade_history: it assigns nothing
GetTradeHistory ==
    /\ result' = [op |-> "get_trade_history",
                  value |-> get_trade_history(calc)]
    /\ calc' = calc
    /\ UNCHANGED <<file, stocks, pfile, price_history>>

NextQuery ==
    \/ \E l \in Lots : BuyToday(l)
    \/ \E l \in Lots : SellToday(l)
    \/ GetPositionSummary
    \/ \E p \in QueryPrices : CalculateProfitLoss(p)
    \/ GetTradeHistory

SpecQuery == Init /\ [][NextQuery]_vars

ZeroProfitLoss ==
    [profit_loss |-> Zero, profit_loss_rate |-> Zero, market_value |-> Zero,
     total_investment |-> Zero]

(***************************************************************************)
(* C4.  calculate_profit_loss(price) returns the all-zero record when      *)
(* current_shares <= 0; otherwise market_value = price * current_shares,   *)
(* total_investment = total_cost + total_commission, profit_loss is their  *)
(* difference, and profit_loss_rate is 100 * profit_loss /                 *)
(* total_investment when total_investment > 0 and 0 otherwise.  On the     *)
(* ledger of main() at 20.50: market_value 10250, total_investment 10085,  *)
(* profit_loss 165.                                                        *)
(***************************************************************************)
C4_ProfitLoss ==
    result.op = "calculate_profit_loss" =>
        LET v == result.value
            p == result.price
        IN  /\ calc.current_shares <= 0 => v = ZeroProfitLoss
            /\ calc.current_shares > 0 =>
                 /\ v.market_value = FMul(p, FInt(calc.current_shares))
                 /\ v.total_investment =
                      FAdd(calc.total_cost, calc.total_commission)
                 /\ FAdd(v.profit_loss, v.total_investment) = v.market_value
                 /\ FGt(v.total_investment, Zero) =>
                      FMul(v.profit_loss_rate, v.total_investment) =
                          FMul(FInt(100), v.profit_loss)
                 /\ ~FGt(v.total_investment, Zero) =>
                      v.profit_loss_rate = Zero
            /\ (IsMainLedger(calc.trades) /\ p = Rat(2050, 100)) =>
                 /\ v.market_value = FInt(10250)
                 /\ v.total_investment = FInt(10085)
                 /\ v.profit_loss = FInt(165)

C4_Witness ==
    /\ result.op = "calculate_profit_loss"
    /\ result.price = Rat(2050, 100)
    /\ IsMainLedger(calc.trades)

\* the other two cases of C4 are met too
C4_NoPositionCase ==
    /\ result.op = "calculate_profit_loss"
    /\ calc.current_shares < 0

C4_NoInvestmentCase ==
    /\ result.op = "calculate_profit_loss"
    /\ calc.current_shares > 0
    /\ FLt(get_total_investment(calc), Zero)

(***************************************************************************)
(* C10.  get_position_summary, calculate_profit_loss(price) and            *)
(* get_trade_history leave trades, current_shares, total_cost and          *)
(* total_commission unchanged, and a query repeated with the same          *)
(* argument returns the same result.                                       *)
(***************************************************************************)
QueryOps ==
    {"get_position_summary", "calculate_profit_loss", "get_trade_history"}

SameQuery(r1, r2) ==
    /\ r1.op = r2.op
    /\ r1.op = "calculate_profit_loss" => r1.price = r2.price

C10_QueriesChangeNothing ==
    [][result'.op \in QueryOps =>
           /\ calc' = calc
           /\ (result.op \in QueryOps /\ SameQuery(result, result')) =>
                result' = result]_vars

C10_Witness ==
    /\ result.op = "calculate_profit_loss"
    /\ Len(calc.trades) = 3
    /\ calc.current_shares > 0
    /\ calc.total_commission # Zero

(***************************************************************************)
(* The load specification: a stored ledger or a stored portfolio, written  *)
(* earlier in any order of records, is loaded and saved.                   *)
(***************************************************************************)
SeqsUpTo(S, n) == UNION { [1..k -> S] : k \in 0..n }

\* the ledger files of at most n stored records, in any order
LedgerFiles(n) ==
    { [exists |-> TRUE, trades |-> stored_trades(s)] :
        s \in SeqsUpTo(TradeInputs, n) }

\* the functions from the codes D to stored ledgers of at most n records
\* in all
RECURSIVE LedgersOver(_, _)
LedgersOver(D, n) ==
    IF D = {} THEN { << >> }
    ELSE LET c == CHOOSE x \in D : TRUE
         IN  UNION { { (c :> [trades |-> stored_trades(s)]) @@ g :
                         g \in LedgersOver(D \ {c}, n - Len(s)) } :
                     s \in SeqsUpTo(TradeInputs, n) }

\* the portfolio files of at most n stored records, in any order
PortfolioFiles(n) ==
    { [exists |-> TRUE, data |-> g] :
        g \in UNION { LedgersOver(D, n) : D \in SUBSET Codes } }

InitLoad ==
    /\ calc = NewCalculator
    /\ result = NoResult
    /\ stocks = NewPortfolio
    /\ price_history = << >>
    /\ \/ file \in LedgerFiles(MaxFileTrades) \cup {Absent} /\ pfile = Absent
       \/ file = Absent /\ pfile \in PortfolioFiles(MaxFileTrades)

LoadFromFile ==
    /\ calc' = load_from_file(calc, file)
    /\ result' = [op |-> "load_from_file", found |-> file.exists]
    /\ UNCHANGED <<file, stocks, pfile, price_history>>

SaveToFile ==
    /\ file' = save_to_file(calc)
    /\ result' = [op |-> "save_to_file"]
    /\ UNCHANGED <<calc, stocks, pfile, price_history>>

LoadPortfolio ==
    /\ stocks' = load_portfolio(stocks, pfile)
    /\ result' = [op |-> "load_portfolio", found |-> pfile.exists]
    /\ UNCHANGED <<calc, file, pfile, price_history>>

SavePortfolio ==
    /\ pfile' = save_portfolio(stocks)
    /\ result' = [op |-> "save_portfolio"]
    /\ UNCHANGED <<calc, file, stocks, price_history>>

NextLoad ==
    \/ LoadFromFile
    \/ SaveToFile
    \/ LoadPortfolio
    \/ SavePortfolio

SpecLoad == InitLoad /\ [][NextLoad]_vars

DateOrdered(c) ==
    /\ IsSortedByDate(c.trades)
    /\ Position(c) = ReplayFromZero(sort_by_date(c.trades))

(***************************************************************************)
(* C6.  After load_from_file or load_portfolio of stored records in any    *)
(* storage order, the trades of every loaded ledger are in ascending date  *)
(* order and its position is the replay of the trades in ascending date    *)
(* order.                                                                  *)
(***************************************************************************)
C6_LoadReordersByDate ==
    /\ (result.op = "load_from_file" /\ result.found) => DateOrdered(calc)
    /\ (result.op = "load_portfolio" /\ result.found) =>
          \A c \in DOMAIN stocks : DateOrdered(stocks[c])

\* the two halves of C6, each on its own
C6_LoadFromFileHalf ==
    (result.op = "load_from_file" /\ result.found) => DateOrdered(calc)

C6_LoadPortfolioHalf ==
    (result.op = "load_portfolio" /\ result.found) =>
        \A c \in DOMAIN stocks : DateOrdered(stocks[c])

\* what does hold after a load: the trades are in storage order and the
\* position is their replay in storage order
C6_LoadKeepsStorageOrder ==
    /\ (result.op = "load_from_file" /\ result.found) =>
          /\ stored_trades(calc.trades) = file.trades
          /\ Position(calc) = ReplayFromZero(calc.trades)
    /\ (result.op = "load_portfolio" /\ result.found) =>
          \A c \in DOMAIN stocks :
             /\ stored_trades(stocks[c].trades) = pfile.data[c].trades
             /\ Position(stocks[c]) = ReplayFromZero(stocks[c].trades)

(***************************************************************************)
(* The portfolio specification: the add_trade route of app.py (add_stock,  *)
(* then buy or sell, the n-th trade of an instrument on day n) and         *)
(* get_portfolio_summary.                                                  *)
(***************************************************************************)
RECURSIVE TradeCount(_, _)
TradeCount(st, codes) ==
    IF codes = {} THEN 0
    ELSE LET c == CHOOSE x \in codes : TRUE
         IN  Len(st[c].trades) + TradeCount(st, codes \ {c})

\* current_prices: a price for some of the instruments
PriceMaps ==
    UNION { [D -> {Rat(1950, 100), Rat(2050, 100)}] : D \in SUBSET Codes }

AddStock(code) ==
    /\ stocks' = add_stock(stocks, code)
    /\ result' = NoResult
    /\ UNCHANGED <<calc, file, pfile, price_history>>

PortfolioBuy(code, l) ==
    /\ TradeCount(stocks, DOMAIN stocks) < MaxPortfolioTrades
    /\ LET st == add_stock(stocks, code)
       IN  stocks' = [st EXCEPT ![code] =
                         buy(st[code], Len(st[code].trades) + 1, l.price,
                             l.shares, l.commission)]
    /\ result' = NoResult
    /\ UNCHANGED <<calc, file, pfile, price_history>>

PortfolioSell(code, l) ==
    /\ TradeCount(stocks, DOMAIN stocks) < MaxPortfolioTrades
    /\ LET st == add_stock(stocks, code)
       IN  stocks' = [st EXCEPT ![code] =
                         sell(st[code], Len(st[code].trades) + 1, l.price,
                              l.shares, l.commission)]
    /\ result' = NoResult
    /\ UNCHANGED <<calc, file, pfile, price_history>>

GetPortfolioSummary(current_prices) ==
    /\ result' = [op |-> "get_portfolio_summary", prices |-> current_prices,
                  value |-> get_portfolio_summary(stocks, current_prices)]
    /\ UNCHANGED <<calc, file, stocks, pfile, price_history>>

NextPortfolio ==
    \/ \E code \in Codes : AddStock(code)
    \/ \E code \in Codes, l \in Lots : PortfolioBuy(code, l)
    \/ \E code \in Codes, l \in Lots : PortfolioSell(code, l)
    \/ \E current_prices \in PriceMaps : GetPortfolioSummary(current_prices)

SpecPortfolio == Init /\ [][NextPortfolio]_vars

\* the fields calculate_profit_loss gives for one instrument at its
\* supplied price, a missing price counting as 0; zeros for an instrument
\* the portfolio does not hold
InstrumentAt(code, current_prices) ==
    IF code \in DOMAIN stocks
    THEN calculate_profit_loss(stocks[code],
             IF code \in DOMAIN current_prices THEN current_prices[code]
             ELSE Zero)
    ELSE ZeroProfitLoss

RECURSIVE SumOverCodes(_, _, _)
SumOverCodes(codes, current_prices, field) ==
    IF codes = {} THEN Zero
    ELSE LET c == CHOOSE x \in codes : TRUE
         IN  FAdd(InstrumentAt(c, current_prices)[field],
                  SumOverCodes(codes \ {c}, current_prices, field))

(***************************************************************************)
(* C9.  get_portfolio_summary(current_prices) returns the sums over every  *)
(* instrument of its calculate_profit_loss fields at its supplied price,   *)
(* a missing price counting as 0: an instrument with shares > 0 and no     *)
(* price contributes market_value 0 and profit_loss = -total_investment;   *)
(* the overall rate is 100 * total_profit_loss / total_investment when     *)
(* total_investment > 0 and 0 otherwise.                                   *)
(***************************************************************************)
C9_PortfolioSums ==
    result.op = "get_portfolio_summary" =>
        LET v == result.value
            cp == result.prices
        IN  /\ v.total_investment = SumOverCodes(Codes, cp, "total_investment")
            /\ v.total_market_value = SumOverCodes(Codes, cp, "market_value")
            /\ v.total_profit_loss = SumOverCodes(Codes, cp, "profit_loss")
            /\ DOMAIN v.stocks = DOMAIN stocks
            /\ \A c \in DOMAIN stocks :
                 (c \notin DOMAIN cp /\ stocks[c].current_shares > 0) =>
                    /\ v.stocks[c].profit_loss.market_value = Zero
                    /\ v.stocks[c].profit_loss.profit_loss =
                         FNeg(FAdd(stocks[c].total_cost,
                                   stocks[c].total_commission))
            /\ FGt(v.total_investment, Zero) =>
                 FMul(v.total_profit_loss_rate, v.total_investment) =
                     FMul(FInt(100), v.total_profit_loss)
            /\ ~FGt(v.total_investment, Zero) =>
                 v.total_profit_loss_rate = Zero

\* two instruments held, one with a price and one without
C9_Witness ==
    /\ result.op = "get_portfolio_summary"
    /\ DOMAIN stocks = Codes
    /\ \A c \in Codes : stocks[c].current_shares > 0
    /\ Cardinality(DOMAIN result.prices) = 1
    /\ FLt(result.value.total_profit_loss, Zero)

(***************************************************************************)
(* The advice specification: a StockAnalyzer over a calculator in one of   *)
(* the states main() takes it through; prices are added to the history     *)
(* with any date, and the analysis is asked for between the additions.     *)
(***************************************************************************)
MainLedger ==
    << Trade(1, "buy", Rat(2000, 100), 500, FInt(5)),
       Trade(2, "sell", Rat(1988, 100), 500, FInt(5)),
       Trade(3, "buy", Rat(2014, 100), 500, FInt(5)) >>

AdviceCalculators == { EnterAll(SubSeq(MainLedger, 1, k)) : k \in 0..3 }

HistoryPrices == { FInt(10), FInt(11), FInt(12) }

\* the days the prices of a history are dated: two, so that a price can be
\* added before, on and after the day of another
HistoryDates == {1, 2}

AdvicePrices == { FInt(15), Rat(2050, 100), FInt(25) }

InitAdvice ==
    /\ calc \in AdviceCalculators
    /\ result = NoResult
    /\ file = Absent
    /\ stocks = NewPortfolio
    /\ pfile = Absent
    /\ price_history = << >>

AddPriceHistory(d, p) ==
    /\ Len(price_history) < MaxHistory
    /\ price_history' = add_price_history(price_history, d, p)
    /\ result' = NoResult
    /\ UNCHANGED <<calc, file, stocks, pfile>>

CalculateVolatility ==
    /\ result' = [op |-> "calculate_volatility",
                  value |-> calculate_volatility(
                                get_price_list(price_history))]
    /\ UNCHANGED <<calc, file, stocks, pfile, price_history>>

GetComprehensiveAdvice(p) ==
    /\ result' = [op |-> "get_comprehensive_advice", price |-> p,
                  value |-> get_comprehensive_advice(
                                calc, p, get_price_list(price_history))]
    /\ UNCHANGED <<calc, file, stocks, pfile, price_history>>

AnalyzeStock(p) ==
    /\ result' = [op |-> "analyze_stock", price |-> p,
                  value |-> analyze_stock(calc, price_history, p)]
    /\ UNCHANGED <<calc, file, stocks, pfile, price_history>>

NextAdvice ==
    \/ \E d \in HistoryDates, p \in HistoryPrices : AddPriceHistory(d, p)
    \/ CalculateVolatility
    \/ \E p \in AdvicePrices : GetComprehensiveAdvice(p)
    \/ \E p \in AdvicePrices : AnalyzeStock(p)

SpecAdvice == InitAdvice /\ [][NextAdvice]_vars

AdviceOps == {"get_comprehensive_advice", "analyze_stock"}

(***************************************************************************)
(* C7.  calculate_volatility returns a number for every series of          *)
(* positive prices of every length (0 for fewer than 2 prices), and        *)
(* get_comprehensive_advice and analyze_stock return a structured result,  *)
(* never an error, for every non-empty price history.                      *)
(***************************************************************************)
C7_NeverFailsOnShortHistory ==
    /\ result.op = "calculate_volatility" =>
          /\ result.value.kind = "value"
          /\ Len(price_history) < 2 => result.value.squared = Zero
    /\ (result.op \in AdviceOps /\ price_history # << >>) =>
          result.value.kind = "advice"

\* what the code does do: it fails exactly on a history of two prices
C7_FailsExactlyOnTwoPrices ==
    /\ result.op = "calculate_volatility" =>
          (result.value.kind = "raised" <=> Len(price_history) = 2)
    /\ result.op \in AdviceOps =>
          (result.value.kind = "raised" <=> Len(price_history) = 2)

(***************************************************************************)
(* C8.  For an instrument with no position (current_shares = 0) and a      *)
(* non-empty price history, get_comprehensive_advice reports risk level    *)
(* "low" whenever the volatility is not above 0.5 and the trend is not a   *)
(* sell signal.                                                            *)
(***************************************************************************)
C8_NoPositionLowRisk ==
    (/\ result.op \in AdviceOps
     /\ price_history # << >>
     /\ calc.current_shares = 0
     /\ result.value.kind = "advice"
     /\ ~volatility_above_half(result.value.volatility_squared)
     /\ ~has_sell(result.value.trend)) =>
        result.value.risk_level = "low"

\* what the code does do for an instrument with no position: "medium",
\* or "high" when the volatility is above 0.5
C8_NoPositionMediumRisk ==
    (/\ result.op \in AdviceOps
     /\ calc.current_shares = 0
     /\ result.value.kind = "advice") =>
        /\ result.value.profit_loss = ZeroProfitLoss
        /\ result.value.risk_level =
             IF volatility_above_half(result.value.volatility_squared)
             THEN "high" ELSE "medium"

\* histories of low but non-zero volatility, and of high volatility, occur
C8_LowVolatilityCase ==
    /\ result.op \in AdviceOps
    /\ result.value.kind = "advice"
    /\ result.value.volatility_squared # Zero
    /\ ~volatility_above_half(result.value.volatility_squared)

C8_HighVolatilityCase ==
    /\ result.op \in AdviceOps
    /\ result.value.kind = "advice"
    /\ volatility_above_half(result.value.volatility_squared)

(***************************************************************************)
(* The trend specification: prices are added to the history with any date  *)
(* and analyze_trend is asked for the trend of the history's prices, with  *)
(* a short and a long period of the caller's choice.                       *)
(***************************************************************************)
MaxPeriod == 3

TrendPeriods == 1..MaxPeriod

\* the short period is not longer than the long period
AnalyzeTrend(short_period, long_period) ==
    /\ short_period <= long_period
    /\ result' = [op |-> "analyze_trend",
                  short_period |-> short_period,
                  long_period |-> long_period,
                  value |-> analyze_trend(get_price_list(price_history),
                                          short_period, long_period)]
    /\ UNCHANGED <<calc, file, stocks, pfile, price_history>>

NextTrend ==
    \/ \E d \in HistoryDates, p \in HistoryPrices : AddPriceHistory(d, p)
    \/ \E sp \in TrendPeriods, lp \in TrendPeriods : AnalyzeTrend(sp, lp)

SpecTrend == Init /\ [][NextTrend]_vars

\* the number of points of the moving average of a period over the history
AveragePoints(period) ==
    Len(calculate_sma(get_price_list(price_history), period))

IsCrossover(trend) == has_buy(trend) \/ has_sell(trend)

(***************************************************************************)
(* C11.  analyze_trend never reports a golden cross or a death cross when  *)
(* either moving-average series has only one point; in particular, for a   *)
(* price series whose length equals long_period (the long average has one  *)
(* value, the short average several) the result is "bullish trend" or      *)
(* "bearish trend".                                                        *)
(***************************************************************************)
C11_NoCrossoverOnSinglePoint ==
    result.op = "analyze_trend" =>
        /\ (AveragePoints(result.short_period) = 1
            \/ AveragePoints(result.long_period) = 1) =>
               ~IsCrossover(result.value)
        /\ (Len(price_history) = result.long_period
            /\ result.short_period < result.long_period) =>
               result.value \in {"bullish trend", "bearish trend"}

\* what the code does do: only the series that has one point gets its
\* previous value from its current value, so no crossover is reported
\* when both series have one point
C11_NoCrossoverOnTwoSinglePoints ==
    (/\ result.op = "analyze_trend"
     /\ AveragePoints(result.short_period) = 1
     /\ AveragePoints(result.long_period) = 1) =>
        result.value \in {"bullish trend", "bearish trend"}

\* a golden cross reported on the first point of the long average
C11_CrossoverOnFirstLongPoint ==
    /\ result.op = "analyze_trend"
    /\ result.short_period < result.long_period
    /\ Len(price_history) = result.long_period
    /\ has_buy(result.value)

(***************************************************************************)
(* The risk specification: a StockAnalyzer over a calculator in one of the *)
(* states main() takes it through, whose price history is empty or holds   *)
(* the prices of DefaultLongPeriod days: a flat run and, dated after it, a *)
(* last price.  Prices are added to a short history, and the analysis is   *)
(* asked for at prices below, at and above the cost of the position.       *)
(***************************************************************************)
Flat(n, date, price) == [i \in 1..n |-> [date |-> date, price |-> price]]

LongHistories ==
    { Flat(DefaultLongPeriod - 1, 1, b) \o << [date |-> 2, price |-> l] >> :
          b \in HistoryPrices, l \in HistoryPrices }

\* 15.00 (a loss above 20%), 16.008 (a loss of 20% on 500 shares that cost
\* 10005), 20.01 (break-even on them), 20.50 and 25.00 (a profit, below
\* and above 20%)
RiskPrices ==
    { FInt(15), Rat(16008, 1000), Rat(2001, 100), Rat(2050, 100), FInt(25) }

InitRisk ==
    /\ calc \in AdviceCalculators
    /\ result = NoResult
    /\ file = Absent
    /\ stocks = NewPortfolio
    /\ pfile = Absent
    /\ price_history \in {<< >>} \cup LongHistories

NextRisk ==
    \/ \E d \in HistoryDates, p \in HistoryPrices : AddPriceHistory(d, p)
    \/ \E p \in RiskPrices : GetComprehensiveAdvice(p)
    \/ \E p \in RiskPrices : AnalyzeStock(p)

SpecRisk == InitRisk /\ [][NextRisk]_vars

ProfitLossEntries ==
    { "take partial profit", "in profit, hold", "large loss, control risk",
      "loss, consider averaging down or stop-loss" }

TechnicalEntries == { "technical buy signal", "technical sell signal" }

VolatilityEntry == "high volatility, mind the risk"

Positions(advice, entries) == { i \in 1..Len(advice) : advice[i] \in entries }

(***************************************************************************)
(* C12.  The risk level returned by get_comprehensive_advice is "high"     *)
(* exactly when (profit_loss <= 0 and profit_loss_rate < -20) or the       *)
(* annualized volatility is above 0.5; "medium" exactly when               *)
(* profit_loss <= 0, profit_loss_rate >= -20 and the volatility is not     *)
(* above 0.5; "low" exactly when profit_loss > 0 and the volatility is not *)
(* above 0.5.  The advice list holds at most one of the technical buy and  *)
(* technical sell entries, after the profit/loss entry and before the      *)
(* volatility entry.                                                       *)
(***************************************************************************)
C12_RiskLevelAndAdviceOrder ==
    (result.op \in AdviceOps /\ result.value.kind = "advice") =>
        LET v == result.value
            loss == FLe(v.profit_loss.profit_loss, Zero)
            large == FLt(v.profit_loss.profit_loss_rate, FInt(-20))
            volatile == volatility_above_half(v.volatility_squared)
            technical == Positions(v.advice, TechnicalEntries)
            volatility == Positions(v.advice, {VolatilityEntry})
        IN  /\ v.risk_level \in {"low", "medium", "high"}
            /\ v.risk_level = "high" <=> ((loss /\ large) \/ volatile)
            /\ v.risk_level = "medium" <=> (loss /\ ~large /\ ~volatile)
            /\ v.risk_level = "low" <=> (~loss /\ ~volatile)
            /\ Positions(v.advice, ProfitLossEntries) = {1}
            /\ Cardinality(technical) <= 1
            /\ Cardinality(volatility) <= 1
            /\ \A i \in technical : i > 1
            /\ \A i \in technical, j \in volatility : i < j
            /\ \A j \in volatility : j > 1
            /\ Positions(v.advice, ProfitLossEntries) \cup technical
                  \cup volatility = 1..Len(v.advice)

\* a position in profit whose history ends in a golden cross of high
\* volatility: the three entries in order, the "low" level raised to "high"
C12_Witness ==
    /\ result.op \in AdviceOps
    /\ result.value.kind = "advice"
    /\ calc.current_shares > 0
    /\ result.value.advice =
          << "take partial profit", "technical buy signal", VolatilityEntry >>
    /\ result.value.risk_level = "high"

\* the other cases: a loss of exactly 20% is "medium"; a larger loss is
\* "high" without high volatility; a sell signal without high volatility
C12_BoundaryLossCase ==
    /\ result.op \in AdviceOps
    /\ result.value.kind = "advice"
    /\ result.value.profit_loss.profit_loss_rate = FInt(-20)
    /\ result.value.risk_level = "medium"

C12_LargeLossCase ==
    /\ result.op \in AdviceOps
    /\ result.value.kind = "advice"
    /\ ~volatility_above_half(result.value.volatility_squared)
    /\ result.value.advice =
          << "large loss, control risk", "technical sell signal" >>
    /\ result.value.risk_level = "high"

C12_BreakEvenCase ==
    /\ result.op \in AdviceOps
    /\ result.value.kind = "advice"
    /\ calc.current_shares > 0
    /\ result.value.profit_loss.profit_loss = Zero
    /\ result.value.risk_level = "medium"

C12_LowCase ==
    /\ result.op \in AdviceOps
    /\ result.value.kind = "advice"
    /\ result.value.risk_level = "low"
    /\ result.value.advice = << "in profit, hold" >>

(***************************************************************************)
(* C13.  During replay a sell is applied exactly when the shares held      *)
(* before it are > 0 and is otherwise ignored (shares and cost unchanged). *)
(* It is never rejected for exceeding the holding: a sell of s > held > 0  *)
(* shares sets current_shares = held - s < 0 and                           *)
(* total_cost = total_cost * (1 - s / held), negative when the cost was    *)
(* positive; every later sell is ignored until buys bring the shares       *)
(* above 0; average_cost and calculate_profit_loss report zeros for as     *)
(* long as current_shares <= 0.  Checked on trades entered as they         *)
(* happen, where the sell entered is the last trade replayed.              *)
(***************************************************************************)
SellApplied(l) ==
    /\ calc'.current_shares = calc.current_shares - l.shares
    /\ calc'.total_cost =
          FMul(calc.total_cost,
               FSub(FInt(1), FDiv(FInt(l.shares), FInt(calc.current_shares))))
    /\ (l.shares > calc.current_shares /\ FGt(calc.total_cost, Zero)) =>
          /\ calc'.current_shares < 0
          /\ FLt(calc'.total_cost, Zero)

SellIgnored ==
    /\ calc'.current_shares = calc.current_shares
    /\ calc'.total_cost = calc.total_cost

ZerosWithoutHolding ==
    calc.current_shares <= 0 =>
        /\ get_average_cost(calc) = Zero
        /\ result.op = "get_position_summary" =>
              result.value.average_cost = Zero
        /\ result.op = "calculate_profit_loss" =>
              result.value = ZeroProfitLoss

C13_SellAppliedIffHolding ==
    /\ [](ZerosWithoutHolding)
    /\ [][\A l \in Lots :
            SellToday(l) =>
                IF calc.current_shares > 0 THEN SellApplied(l)
                ELSE SellIgnored]_vars

\* a sell of more than the holding has made the shares and the cost
\* negative, the sell after it has been ignored, and calculate_profit_loss
\* has reported zeros
C13_Witness ==
    /\ Len(calc.trades) = 3
    /\ calc.trades[1].action = "buy"
    /\ calc.trades[2].action = "sell"
    /\ calc.trades[2].shares > calc.trades[1].shares
    /\ calc.trades[3].action = "sell"
    /\ calc.current_shares = calc.trades[1].shares - calc.trades[2].shares
    /\ calc.current_shares < 0
    /\ FLt(calc.total_cost, Zero)
    /\ result.op = "calculate_profit_loss"
    /\ result.value = ZeroProfitLoss

\* buys after the sell of more than the holding have brought the shares
\* above 0, where the cost stays below that of the shares held
C13_SharesAboveZeroAgain ==
    /\ Len(calc.trades) = 3
    /\ calc.trades[1].action = "buy"
    /\ calc.trades[2].action = "sell"
    /\ calc.trades[2].shares > calc.trades[1].shares
    /\ calc.trades[3].action = "buy"
    /\ calc.current_shares > 0

(***************************************************************************)
(* C14.  Proportional reduction preserves the average cost: when the last  *)
(* trade of a ledger in date order is a sell of s shares with              *)
(* 0 < s < held, the average cost after the sell equals the average cost   *)
(* before it; and in every ledger in which no sell exceeds the shares held *)
(* at its point of replay, total_cost is at least 0 and at most the sum of *)
(* price * shares of all the buys.                                         *)
(***************************************************************************)
\* the position before the last trade of the ledger is replayed
BeforeLast(trades) == ReplayFromZero(SubSeq(trades, 1, Len(trades) - 1))

\* total_cost / current_shares of a position that holds shares
AverageOf(pos) == FDiv(pos.total_cost, FInt(pos.current_shares))

NoSellExceedsHolding(trades) ==
    \A k \in 1..Len(trades) :
        trades[k].action = "sell" =>
            trades[k].shares
                <= ReplayFromZero(SubSeq(trades, 1, k - 1)).current_shares

Buys(trades) == SelectSeq(trades, LAMBDA t : t.action = "buy")

IsPartialSellLast(trades) ==
    /\ trades # << >>
    /\ trades[Len(trades)].action = "sell"
    /\ 0 < trades[Len(trades)].shares
    /\ trades[Len(trades)].shares < BeforeLast(trades).current_shares

C14_AverageCostPreserved ==
    /\ IsPartialSellLast(calc.trades) =>
          /\ calc.current_shares > 0
          /\ get_average_cost(calc) = AverageOf(BeforeLast(calc.trades))
          /\ AverageOf(Position(calc)) = AverageOf(BeforeLast(calc.trades))
    /\ NoSellExceedsHolding(calc.trades) =>
          /\ FLe(Zero, calc.total_cost)
          /\ FLe(calc.total_cost, SumAmount(Buys(calc.trades)))

\* 500 shares bought at 20.00 and 500 at 20.14, then 300 of them sold: the
\* 700 left cost 20.07 a share, as the 1000 did
C14_Witness ==
    /\ Len(calc.trades) = 3
    /\ IsPartialSellLast(calc.trades)
    /\ NoSellExceedsHolding(calc.trades)
    /\ calc.trades[1].price # calc.trades[2].price
    /\ BeforeLast(calc.trades).current_shares = 1000
    /\ calc.current_shares = 700
    /\ get_average_cost(calc) = Rat(2007, 100)
    /\ FLt(calc.total_cost, SumAmount(Buys(calc.trades)))

\* a ledger with a sell that exceeds the holding, whose cost is below 0
C14_ExceedingSellCase ==
    /\ ~NoSellExceedsHolding(calc.trades)
    /\ FLt(calc.total_cost, Zero)

====
